---- MODULE Spec2Model ----
(***************************************************************************)
(* Model of the abi_gen compliance tooling of Unto-Labs/thru:              *)
(*   scripts/run_ir_parity_checks.py         the parity-check driver       *)
(*   tools/generate_primitive_test_binaries.py   AllPrimitives fixtures    *)
(*   tests/compliance_tests/generate_test_data.py  array/struct/enum/union *)
(*                                               fixtures                  *)
(* and of the parity harness the driver launches (tests/                   *)
(* compliance_harness_rust), whose per-vector loop is taken from the       *)
(* design document because its source is not part of this tree.            *)
(*                                                                         *)
(* Python values are modelled by what they are at run time:                *)
(*   int    arbitrary precision: a sign and a magnitude in base 65536,     *)
(*          least significant limb first                                   *)
(*   float  an IEEE-754 binary64: sign, biased exponent, 52-bit fraction   *)
(*          (fraction in base 65536 limbs, least significant first)        *)
(*   bytes  a sequence of 0..255                                           *)
(*   str    a sequence of tokens; "/" is the path separator token          *)
(***************************************************************************)
EXTENDS Integers, Sequences, FiniteSets, TLC

VARIABLES
    script,      \* which entry point this run executes
    pc,          \* position of the running script
    calls,       \* fixture generators: calls main() has completed
    args,        \* parsed command line of the driver (argparse namespace)
    dirs,        \* directories and files that exist, as Paths (driver's view)
    test_dir,    \* the driver's local test_dir (a Path)
    checked,     \* Paths whose existence main() tested with test_dir.exists()
    cmds,        \* harness command lines started so far, in order
    builds,      \* cargo build command lines started so far, in order
    build_rc,    \* return codes of the finished cargo builds, in order
    harness_rc,  \* return codes of the finished harness subprocesses, in order
    exit_code,   \* the process exit status, <<>> while running, <<n>> once exited
    files,       \* fixture directory: file name -> bytes written
    corpus,      \* harness: the loaded corpus, one outcome per vector
    results,     \* harness: vectors evaluated so far, in order
    findings     \* harness: findings recorded so far, in order

vars == <<script, pc, calls, args, dirs, test_dir, checked, cmds, builds, build_rc,
          harness_rc, exit_code, files, corpus, results, findings>>

----------------------------------------------------------------------------
(* Python int and float values *)

\* limb base of the magnitude of a Python int
Base == 256 * 256

RECURSIVE NatToLimbs(_)
NatToLimbs(n) == IF n = 0 THEN <<>> ELSE <<n % Base>> \o NatToLimbs(n \div Base)

\* a Python int given by sign and magnitude limbs
PyInt(neg, mag) == [t |-> "int", neg |-> neg, mag |-> mag]
\* a Python int small enough to be written as a number here
I(n) == PyInt(n < 0, NatToLimbs(IF n < 0 THEN -n ELSE n))
\* a Python float, by the fields of its binary64
PyFloat(sign, exp, frac) == [t |-> "float", sign |-> sign, exp |-> exp, frac |-> frac]

IsZero(mag) == \A k \in DOMAIN mag : mag[k] = 0

----------------------------------------------------------------------------
(* struct.pack *)

\* x & 0xff
LowByte(mag) == IF mag = <<>> THEN 0 ELSE mag[1] % 256

\* x >> 8
ShiftRight8(mag) ==
    [k \in DOMAIN mag |->
        (mag[k] \div 256) + (IF k < Len(mag) THEN (mag[k + 1] % 256) * 256 ELSE 0)]

\* mutation: most significant byte first
RECURSIVE MagBytes_BigEndian(_, _)
MagBytes_BigEndian(mag, n) ==
    IF n = 0 THEN <<>>
    ELSE MagBytes_BigEndian(ShiftRight8(mag), n - 1) \o <<LowByte(mag)>>

\* the n low-order bytes of a magnitude, least significant byte first
RECURSIVE MagBytes(_, _)
MagBytes(mag, n) ==
    IF n = 0 THEN <<>> ELSE <<LowByte(mag)>> \o MagBytes(ShiftRight8(mag), n - 1)

RECURSIVE ShiftRightBytes(_, _)
ShiftRightBytes(mag, n) ==
    IF n = 0 THEN mag ELSE ShiftRightBytes(ShiftRight8(mag), n - 1)

\* mutation: one's complement, the carry is never added
NegateBytes_OnesComplement(bytes, carry) == [k \in DOMAIN bytes |-> 255 - bytes[k]]

\* two's complement negation of a little-endian byte string: invert, add one
RECURSIVE NegateBytes(_, _)
NegateBytes(bytes, carry) ==
    IF bytes = <<>> THEN <<>>
    ELSE LET s == (255 - Head(bytes)) + carry
         IN  <<s % 256>> \o NegateBytes(Tail(bytes), s \div 256)

Reverse(s) == [k \in 1..Len(s) |-> s[Len(s) + 1 - k]]

\* standard sizes of the format codes
CodeSize(c) ==
    CASE c \in {"B", "b"} -> 1
      [] c \in {"H", "h"} -> 2
      [] c \in {"I", "i", "f"} -> 4
      [] c \in {"Q", "q", "d"} -> 8

IsSignedCode(c) == c \in {"b", "h", "i", "q"}
IsFloatCode(c) == c \in {"f", "d"}

\* struct's range check of an integer argument ("argument out of range")
IntInRange(c, v) ==
    LET n    == CodeSize(c)
        fits == IsZero(ShiftRightBytes(v.mag, n))
        \* the most significant of the n bytes of the magnitude
        top  == LowByte(ShiftRightBytes(v.mag, n - 1))
    IN  IF ~IsSignedCode(c)
        THEN fits /\ (~v.neg \/ IsZero(v.mag))
        ELSE /\ fits
             /\ \/ top < 128
                \/ /\ v.neg
                   /\ top = 128
                   /\ \A k \in 0..(n - 2) : LowByte(ShiftRightBytes(v.mag, k)) = 0

\* an integer of the code's width, least significant byte first; negative
\* values in two's complement
PackInt(c, v) ==
    LET low == MagBytes(v.mag, CodeSize(c))
    IN  IF v.neg /\ ~IsZero(v.mag) THEN NegateBytes(low, 1) ELSE low

\* 'd': the binary64 itself, sign(1) exponent(11) fraction(52)
PackDouble(v) ==
    MagBytes(<<v.frac[1], v.frac[2], v.frac[3],
               v.frac[4] + v.exp * 16 + v.sign * 32768>>, 8)

RECURSIVE Pow2(_)
Pow2(k) == IF k = 0 THEN 1 ELSE 2 * Pow2(k - 1)

\* bit i of a magnitude (bit 0 is the least significant)
Bit(mag, i) ==
    IF (i \div 16) + 1 > Len(mag) THEN 0
    ELSE (mag[(i \div 16) + 1] \div Pow2(i % 16)) % 2

\* bits from..from+n-1 of a magnitude, as a number
RECURSIVE Bits(_, _, _)
Bits(mag, from, n) ==
    IF n = 0 THEN 0 ELSE Bit(mag, from) + 2 * Bits(mag, from + 1, n - 1)

\* x >> s for a 53-bit x, with the last bit shifted out (round) and whether
\* any bit below it is set (sticky)
ShiftRound(mag, s) ==
    [q      |-> Bits(mag, s, 24),
     round  |-> IF s = 0 THEN 0 ELSE Bit(mag, s - 1),
     sticky |-> \E j \in 0..(s - 2) : Bit(mag, j) = 1]

\* exponent of the binary32 that (float)x would have before rounding
SingleExp(v) == v.exp - 1023 + 127

\* the 31 low bits (exponent and fraction) of (float)x for finite x whose
\* exponent is below the binary32 maximum: round to nearest, ties to even;
\* results below the normal range become subnormal or zero
SingleBits(v) ==
    LET e32     == IF v.exp = 0 THEN 1 - 1023 + 127 ELSE SingleExp(v)
        hidden  == IF v.exp = 0 THEN 0 ELSE 16
        sig     == <<v.frac[1], v.frac[2], v.frac[3], v.frac[4] + hidden>>
        s       == IF e32 >= 1 THEN 29 ELSE 29 + 1 - e32
        r       == ShiftRound(sig, IF s > 60 THEN 60 ELSE s)
        up      == r.round = 1 /\ (r.sticky \/ r.q % 2 = 1)
        rounded == IF up THEN r.q + 1 ELSE r.q
    IN  ((IF e32 >= 1 THEN e32 ELSE 1) - 1) * 8388608 + rounded

\* PyFloat_Pack4 raises OverflowError when a finite x becomes infinite
FloatInRange(c, v) ==
    \/ c = "d"
    \/ v.exp = 2047
    \/ /\ SingleExp(v) < 255
       /\ SingleBits(v) < 255 * 8388608

\* 'f': (float)x as binary32, sign(1) exponent(8) fraction(23)
PackSingle(v) ==
    LET bits == IF v.exp = 2047
                THEN 255 * 8388608
                     + (v.frac[4] * 524288 + v.frac[3] * 8 + v.frac[2] \div 8192)
                     \* a NaN stays a NaN: the quiet bit is set
                     + (IF ~IsZero(v.frac) /\ v.frac[4] < 8 THEN 4194304 ELSE 0)
                ELSE SingleBits(v)
    IN  MagBytes(<<bits % Base, bits \div Base + v.sign * 32768>>, 4)

\* every call in the tree passes a float for 'f' and 'd' and an int for the
\* integer codes
ValueInRange(c, v) ==
    IF IsFloatCode(c) THEN v.t = "float" /\ FloatInRange(c, v)
    ELSE v.t = "int" /\ IntInRange(c, v)

\* one value under one format code, in the given byte order
PackOne(order, c, v) ==
    LET le == CASE c = "d" -> PackDouble(v)
                [] c = "f" -> PackSingle(v)
                [] OTHER   -> PackInt(c, v)
    IN  IF order = ">" THEN Reverse(le) ELSE le

\* mutation: the "<" of the format is lost, the format is native
FmtOrder_Native(fmt) == "@"

\* the first character of a format selects byte order, size and alignment;
\* without one the format is native ("@")
FmtOrder(fmt) == IF fmt # <<>> /\ Head(fmt) \in {"<", ">", "@"} THEN Head(fmt) ELSE "@"
FmtCodes(fmt) == IF fmt # <<>> /\ Head(fmt) \in {"<", ">", "@"} THEN Tail(fmt) ELSE fmt

\* zero bytes put before a field: native formats align every field to its
\* size, "<" and ">" never pad
AlignPad(order, offset, c) ==
    IF order = "@"
    THEN [k \in 1..((CodeSize(c) - (offset % CodeSize(c))) % CodeSize(c)) |-> 0]
    ELSE <<>>

RECURSIVE PackFields(_, _, _, _)
PackFields(order, codes, values, acc) ==
    IF codes = <<>> THEN acc
    ELSE PackFields(order, Tail(codes), Tail(values),
                    acc \o AlignPad(order, Len(acc), Head(codes))
                        \o PackOne(order, Head(codes), Head(values)))

\* struct.pack(fmt, *values); native byte order is taken as little-endian
StructPack(fmt, values) == PackFields(FmtOrder(fmt), FmtCodes(fmt), values, <<>>)

\* struct.pack raises struct.error instead of returning
StructPackOk(fmt, values) ==
    /\ Len(FmtCodes(fmt)) = Len(values)
    /\ \A k \in 1..Len(values) : ValueInRange(FmtCodes(fmt)[k], values[k])

----------------------------------------------------------------------------
(* tools/generate_primitive_test_binaries.py *)

\* the float literals of the script as the binary64 values Python reads
\* them as
F_0_0          == PyFloat(0, 0, <<0, 0, 0, 0>>)                        \* 0.0
F_3_4028235e38 == PyFloat(0, 1150, <<\hAFF8, \hE54D, \hFFFF, \hF>>)    \* 3.4028235e38
F_1_797e308    == PyFloat(0, 2046, <<\hFFFF, \hFFFF, \hFFFF, \hF>>)    \* 1.7976931348623157e308
F_3_14159      == PyFloat(0, 1024, <<\h866E, \hF01B, \h21F9, \h9>>)    \* 3.14159
F_3_14159265   == PyFloat(0, 1024, <<\hD4F1, \h53C8, \h21FB, \h9>>)    \* 3.14159265
F_E            == PyFloat(0, 1024, <<\h5769, \h8B14, \hBF0A, \h5>>)    \* 2.718281828459045
\* unary minus on a float literal
FNeg(f) == [f EXCEPT !.sign = 1 - f.sign]

\* the integer literals beyond 31 bits
U32_MAX     == PyInt(FALSE, <<\hFFFF, \hFFFF>>)                   \* 4294967295
U64_MAX     == PyInt(FALSE, <<\hFFFF, \hFFFF, \hFFFF, \hFFFF>>)   \* 18446744073709551615
I64_MAX     == PyInt(FALSE, <<\hFFFF, \hFFFF, \hFFFF, \h7FFF>>)   \* 9223372036854775807
I32_MIN     == PyInt(TRUE, <<0, \h8000>>)                         \* -2147483648
I64_MIN     == PyInt(TRUE, <<0, 0, 0, \h8000>>)                   \* -9223372036854775808
U64_BIGINT  == PyInt(FALSE, <<\hDEF0, \h9ABC, \h5678, \h1234>>)   \* 0x123456789ABCDEF0
U32_PATTERN == PyInt(FALSE, <<\h5678, \h1234>>)                   \* 0x12345678

\* the format string of write_binary
AllPrimitivesFmt == <<"<", "B", "H", "I", "Q", "b", "h", "i", "q", "f", "d">>

\* the calls main() makes, in order: file name and the ten values
PrimitiveCalls ==
    << [filename |-> "all_zeros.bin",
        values |-> <<I(0), I(0), I(0), I(0), I(0), I(0), I(0), I(0), F_0_0, F_0_0>>],
       [filename |-> "all_max.bin",
        values |-> <<I(255), I(65535), U32_MAX, U64_MAX,
                     I(127), I(32767), I(2147483647), I64_MAX,
                     F_3_4028235e38, F_1_797e308>>],
       [filename |-> "all_min_signed.bin",
        values |-> <<I(0), I(0), I(0), I(0),
                     I(-128), I(-32768), I32_MIN, I64_MIN,
                     FNeg(F_3_4028235e38), FNeg(F_1_797e308)>>],
       [filename |-> "common_values.bin",
        values |-> <<I(42), I(1000), U32_PATTERN, U64_BIGINT,
                     I(-42), I(-1234), I(-123456), I(-123456789),
                     F_3_14159, F_E>>],
       [filename |-> "u32_0x12345678.bin",
        values |-> <<I(0), I(0), U32_PATTERN, I(0),
                     I(0), I(0), I(0), I(0), F_0_0, F_0_0>>],
       [filename |-> "u64_bigint.bin",
        values |-> <<I(0), I(0), I(0), U64_BIGINT,
                     I(0), I(0), I(0), I(0), F_0_0, F_0_0>>],
       [filename |-> "float_values.bin",
        values |-> <<I(0), I(0), I(0), I(0),
                     I(0), I(0), I(0), I(0), F_3_14159265, F_E>>] >>

\* open(path, 'wb') then write: the file holds exactly data, whatever it held
WriteFile(fs, name, data) ==
    [n \in (DOMAIN fs) \cup {name} |-> IF n = name THEN data ELSE fs[n]]

----------------------------------------------------------------------------
(* tests/compliance_tests/generate_test_data.py *)

\* bytearray.extend(list of ints): one byte per element
Extend(data, list) == data \o list

generate_arrays_simple ==
    [filename |-> "arrays/simple.bin",
     data |-> Extend(Extend(Extend(Extend(<<>>,
                <<1, 2, 3, 4>>),
                StructPack(<<"<", "H", "H", "H">>, <<I(10), I(20), I(30)>>)),
                StructPack(<<"<", "I", "I">>, <<I(100), I(200)>>)),
                StructPack(<<"<", "i", "i", "i", "i", "i">>,
                           <<I(-1), I(0), I(1), I(-100), I(100)>>))]

\* mutation: i32_array packed with four elements instead of five
generate_arrays_zeros_short ==
    [filename |-> "arrays/all_zeros.bin",
     data |-> Extend(Extend(Extend(Extend(<<>>,
                <<0, 0, 0, 0>>),
                StructPack(<<"<", "H", "H", "H">>, <<I(0), I(0), I(0)>>)),
                StructPack(<<"<", "I", "I">>, <<I(0), I(0)>>)),
                StructPack(<<"<", "i", "i", "i", "i">>,
                           <<I(0), I(0), I(0), I(0)>>))]

generate_arrays_zeros ==
    [filename |-> "arrays/all_zeros.bin",
     data |-> Extend(Extend(Extend(Extend(<<>>,
                <<0, 0, 0, 0>>),
                StructPack(<<"<", "H", "H", "H">>, <<I(0), I(0), I(0)>>)),
                StructPack(<<"<", "I", "I">>, <<I(0), I(0)>>)),
                StructPack(<<"<", "i", "i", "i", "i", "i">>,
                           <<I(0), I(0), I(0), I(0), I(0)>>))]

generate_structs_simple ==
    [filename |-> "structs/simple.bin",
     data |-> Extend(Extend(Extend(<<>>,
                StructPack(<<"<", "Q">>, <<I(12345)>>)),
                StructPack(<<"B">>, <<I(66)>>)),
                StructPack(<<"<", "H">>, <<I(9999)>>))]

generate_structs_rectangle ==
    [filename |-> "structs/rectangle.bin",
     data |-> Extend(Extend(Extend(<<>>,
                StructPack(<<"<", "i", "i">>, <<I(10), I(20)>>)),
                StructPack(<<"<", "i", "i">>, <<I(100), I(80)>>)),
                StructPack(<<"<", "I">>, <<I(16711680)>>))]

generate_enums_none ==
    [filename |-> "enums/none.bin",
     data |-> Extend(<<>>, StructPack(<<"B">>, <<I(0)>>))]

\* mutation: tag and payload packed by one native-format call
generate_enums_value_native ==
    [filename |-> "enums/value.bin",
     data |-> Extend(<<>>, StructPack(<<"B", "I">>, <<I(1), I(42)>>))]

generate_enums_value ==
    [filename |-> "enums/value.bin",
     data |-> Extend(Extend(<<>>,
                StructPack(<<"B">>, <<I(1)>>)),
                StructPack(<<"<", "I">>, <<I(42)>>))]

generate_enums_pair ==
    [filename |-> "enums/pair.bin",
     data |-> Extend(Extend(Extend(<<>>,
                StructPack(<<"B">>, <<I(2)>>)),
                StructPack(<<"<", "H">>, <<I(100)>>)),
                StructPack(<<"<", "H">>, <<I(200)>>))]

generate_unions_int ==
    [filename |-> "unions/int_value.bin",
     data |-> Extend(<<>>, StructPack(<<"<", "i">>, <<I(-42)>>))]

generate_unions_float ==
    [filename |-> "unions/float_value.bin",
     data |-> Extend(<<>>, StructPack(<<"<", "f">>, <<F_3_14159>>))]

generate_unions_bytes ==
    [filename |-> "unions/bytes.bin",
     data |-> Extend(<<>>, <<222, 173, 190, 239>>)]

\* the generators main() calls, in order
TestDataCalls ==
    << generate_arrays_simple, generate_arrays_zeros,
       generate_structs_simple, generate_structs_rectangle,
       generate_enums_none, generate_enums_value, generate_enums_pair,
       generate_unions_int, generate_unions_float, generate_unions_bytes >>

----------------------------------------------------------------------------
(* scripts/run_ir_parity_checks.py: strings, paths, arguments *)

\* an optional argparse value: None, or the string given
None == [some |-> FALSE, val |-> <<>>]
Some(s) == [some |-> TRUE, val |-> s]
\* Python truth of an optional string: None and "" are false
Truthy(o) == o.some /\ o.val # <<>>

\* pathlib.Path(s): the components of s; empty and "." components vanish
PathOf(s) ==
    [abs   |-> s # <<>> /\ Head(s) = "/",
     parts |-> SelectSeq(s, LAMBDA t : t \notin {"/", "."})]

\* p / q: an absolute right operand replaces the left one
Join(p, q) == IF q.abs THEN q ELSE [abs |-> p.abs, parts |-> p.parts \o q.parts]

RECURSIVE JoinParts(_)
JoinParts(parts) ==
    IF parts = <<>> THEN <<>>
    ELSE IF Len(parts) = 1 THEN parts
    ELSE <<Head(parts), "/">> \o JoinParts(Tail(parts))

\* str(p)
PathStr(p) ==
    IF p.abs THEN <<"/">> \o JoinParts(p.parts)
    ELSE IF p.parts = <<>> THEN <<".">> ELSE JoinParts(p.parts)

\* Path(__file__).parent.resolve().parent: the abi_gen directory
find_project_root == PathOf(<<"/", "thru", "/", "abi", "/", "abi_gen">>)

HarnessDir(project_root) ==
    Join(Join(project_root, PathOf(<<"tests">>)), PathOf(<<"compliance_harness_rust">>))

HarnessBinary(project_root) ==
    Join(HarnessDir(project_root),
         PathOf(<<"target", "/", "release", "/", "compliance_harness">>))

TestsDir(project_root) == Join(project_root, PathOf(<<"tests">>))

TestCasesDir(project_root) ==
    Join(TestsDir(project_root), PathOf(<<"compliance_tests", "/", "test_cases">>))

\* tests_dir.exists() decides between test_cases and the tests directory
find_compliance_tests_dir(project_root, fs) ==
    IF TestCasesDir(project_root) \in fs
    THEN TestCasesDir(project_root)
    ELSE TestsDir(project_root)

\* the cargo command line of build_compliance_harness
BuildCmd(verbose) ==
    <<<<"cargo">>, <<"build">>, <<"--release">>>>
        \o (IF ~verbose THEN <<<<"--quiet">>>> ELSE <<>>)

\* mutation: the build's `if not verbose` copied into the harness command
HarnessCmd_Quiet(project_root, dir, verbose, output_file) ==
    <<PathStr(HarnessBinary(project_root)), PathStr(dir), <<"--parity">>>>
        \o (IF ~verbose THEN <<<<"--quiet">>>> ELSE <<<<"--verbose">>>>)
        \o (IF Truthy(output_file) THEN <<<<"--output">>, output_file.val>> ELSE <<>>)

\* the harness command line of run_parity_checks
HarnessCmd(project_root, dir, verbose, output_file) ==
    <<PathStr(HarnessBinary(project_root)), PathStr(dir), <<"--parity">>>>
        \o (IF verbose THEN <<<<"--verbose">>>> ELSE <<>>)
        \o (IF Truthy(output_file) THEN <<<<"--output">>, output_file.val>> ELSE <<>>)

\* mutation: a relative --test-dir is left relative (resolved against the
\* current directory)
DetermineTestDir_Cwd(project_root, a, fs) ==
    IF Truthy(a.test_dir)
    THEN PathOf(a.test_dir.val)
    ELSE find_compliance_tests_dir(project_root, fs)

\* main(): the test directory from --test-dir, or the default
DetermineTestDir(project_root, a, fs) ==
    IF Truthy(a.test_dir)
    THEN IF ~PathOf(a.test_dir.val).abs
         THEN Join(project_root, PathOf(a.test_dir.val))
         ELSE PathOf(a.test_dir.val)
    ELSE find_compliance_tests_dir(project_root, fs)

\* values of --test-dir tried: absent, empty, relative, absolute
TestDirArgs ==
    {None, Some(<<>>), Some(<<"cases">>),
     Some(<<"/", "data", "/", "cases", "/">>)}

\* values of --output tried: absent, empty, a file name, a name that reads
\* like an option (--output=--verbose)
OutputArgs == {None, Some(<<>>), Some(<<"report.json">>), Some(<<"--verbose">>)}

\* the argparse namespaces main() can start from
ArgSpace ==
    [verbose : BOOLEAN, test_dir : TestDirArgs, output : OutputArgs,
     build_only : BOOLEAN]

\* paths whose existence the driver can observe
RelCasesDir == Join(find_project_root, PathOf(<<"cases">>))
AbsCasesDir == PathOf(<<"/", "data", "/", "cases">>)
ObservedPaths ==
    {TestsDir(find_project_root), TestCasesDir(find_project_root),
     HarnessDir(find_project_root), HarnessBinary(find_project_root),
     RelCasesDir, AbsCasesDir}

\* a directory tree: what lies below tests/ exists only if tests/ does
IsTree(fs) ==
    /\ TestCasesDir(find_project_root) \in fs => TestsDir(find_project_root) \in fs
    /\ HarnessDir(find_project_root) \in fs => TestsDir(find_project_root) \in fs
    /\ HarnessBinary(find_project_root) \in fs => HarnessDir(find_project_root) \in fs

\* return codes of cargo build and of the harness: success, failure, usage
\* error, Rust panic, death by signal
BuildReturnCodes == {0, 101}
HarnessReturnCodes == {0, 1, 2, 101, -9}

----------------------------------------------------------------------------
(* initial states *)

NoArgs == [verbose |-> FALSE, test_dir |-> None, output |-> None, build_only |-> FALSE]

\* what the files of an earlier run hold; the output directory starts empty
\* or with every file present
StaleData == <<170, 170>>

PrimitiveFiles == {PrimitiveCalls[k].filename : k \in 1..Len(PrimitiveCalls)}
TestDataFiles == {TestDataCalls[k].filename : k \in 1..Len(TestDataCalls)}

\* number of vectors of the largest corpus tried
NumVectors == 5

\* a corpus: for each vector, in iteration order, whether some step of its
\* evaluation fails
Corpora == UNION {[1..n -> BOOLEAN] : n \in 0..NumVectors}

InitDriver ==
    /\ script = "run_ir_parity_checks"
    /\ pc = "main"
    /\ calls = 0
    /\ args \in ArgSpace
    /\ dirs \in {fs \in SUBSET ObservedPaths : IsTree(fs)}
    /\ test_dir = <<>>
    /\ checked = {}
    /\ cmds = <<>>
    /\ builds = <<>>
    /\ build_rc = <<>>
    /\ harness_rc = <<>>
    /\ exit_code = <<>>
    /\ files = <<>>
    /\ corpus = <<>>
    /\ results = <<>>
    /\ findings = <<>>

InitPrimitives ==
    /\ script = "generate_primitive_test_binaries"
    /\ pc = "main"
    /\ calls = 0
    /\ args = NoArgs
    /\ dirs = {}
    /\ test_dir = <<>>
    /\ checked = {}
    /\ cmds = <<>>
    /\ builds = <<>>
    /\ build_rc = <<>>
    /\ harness_rc = <<>>
    /\ exit_code = <<>>
    /\ \E old \in {{}, PrimitiveFiles} : files = [n \in old |-> StaleData]
    /\ corpus = <<>>
    /\ results = <<>>
    /\ findings = <<>>

InitTestData ==
    /\ script = "generate_test_data"
    /\ pc = "main"
    /\ calls = 0
    /\ args = NoArgs
    /\ dirs = {}
    /\ test_dir = <<>>
    /\ checked = {}
    /\ cmds = <<>>
    /\ builds = <<>>
    /\ build_rc = <<>>
    /\ harness_rc = <<>>
    /\ exit_code = <<>>
    /\ \E old \in {{}, TestDataFiles} : files = [n \in old |-> StaleData]
    /\ corpus = <<>>
    /\ results = <<>>
    /\ findings = <<>>

InitHarness ==
    /\ script = "compliance_harness"
    /\ pc = "load"
    /\ calls = 0
    /\ args = NoArgs
    /\ dirs = {}
    /\ test_dir = <<>>
    /\ checked = {}
    /\ cmds = <<>>
    /\ builds = <<>>
    /\ build_rc = <<>>
    /\ harness_rc = <<>>
    /\ exit_code = <<>>
    /\ files = <<>>
    /\ corpus \in Corpora
    /\ results = <<>>
    /\ findings = <<>>

Init == InitDriver \/ InitPrimitives \/ InitTestData \/ InitHarness

----------------------------------------------------------------------------
(* scripts/run_ir_parity_checks.py: main() *)

\* sys.exit(n)
Exit(n) == pc' = "exited" /\ exit_code' = <<n>>

\* mutation: only return code 1 counts as a failed build
BuildSucceeded_OnlyOneFails(rc) == rc # 1

\* build_compliance_harness returns False on a non-zero return code
BuildSucceeded(rc) == rc = 0

\* mutation: a harness killed by a signal (negative return code) passes
ParitySucceeded_NotPositive(rc) == rc <= 0

\* run_parity_checks returns result.returncode == 0
ParitySucceeded(rc) == rc = 0

\* main(): sys.exit(0) on success, sys.exit(1) otherwise
MainExitCode(success) == IF success THEN 0 ELSE 1

\* build_compliance_harness and main()'s test of its result.  cargo runs in
\* the harness directory; subprocess.run raises when that directory or cargo
\* is missing, and the uncaught exception ends the process with status 1.
\* A successful build may leave the harness binary behind.
build_compliance_harness ==
    /\ script = "run_ir_parity_checks"
    /\ pc = "main"
    /\ \/ /\ Exit(1)
          /\ UNCHANGED <<builds, build_rc, dirs>>
       \/ /\ HarnessDir(find_project_root) \in dirs
          /\ builds' = Append(builds, BuildCmd(args.verbose))
          /\ \E rc \in BuildReturnCodes :
                /\ build_rc' = Append(build_rc, rc)
                /\ IF ~BuildSucceeded(rc)
                   THEN Exit(1) /\ UNCHANGED dirs
                   ELSE
                     /\ pc' = "built"
                     /\ UNCHANGED exit_code
                     /\ \E made \in BOOLEAN :
                           dirs' = IF made
                                   THEN dirs \cup {HarnessBinary(find_project_root)}
                                   ELSE dirs
    /\ UNCHANGED <<script, calls, args, test_dir, checked, cmds, harness_rc,
                   files, corpus, results, findings>>

\* main(): --build-only ends the run after the build
build_only_exit ==
    /\ script = "run_ir_parity_checks"
    /\ pc = "built"
    /\ args.build_only
    /\ Exit(0)
    /\ UNCHANGED <<script, calls, args, dirs, test_dir, checked, cmds, builds,
                   build_rc, harness_rc, files, corpus, results, findings>>

\* main(): determine the test directory and test that it exists
determine_test_dir ==
    /\ script = "run_ir_parity_checks"
    /\ pc = "built"
    /\ ~args.build_only
    /\ LET dir == DetermineTestDir(find_project_root, args, dirs)
       IN  /\ test_dir' = <<dir>>
           /\ checked' = checked \cup {dir}
           /\ IF dir \notin dirs
              THEN Exit(1)
              ELSE pc' = "run" /\ UNCHANGED exit_code
    /\ UNCHANGED <<script, calls, args, dirs, cmds, builds, build_rc,
                   harness_rc, files, corpus, results, findings>>

\* run_parity_checks and main()'s exit on its result.  Without the binary no
\* process is started.  subprocess.run raises when the binary cannot be
\* executed (status 1); otherwise the harness runs to its return code.
run_parity_checks ==
    /\ script = "run_ir_parity_checks"
    /\ pc = "run"
    /\ IF HarnessBinary(find_project_root) \notin dirs
       THEN Exit(1) /\ UNCHANGED <<cmds, harness_rc>>
       ELSE \/ Exit(1) /\ UNCHANGED <<cmds, harness_rc>>
            \/ \E rc \in HarnessReturnCodes :
                  /\ cmds' = Append(cmds,
                        HarnessCmd(find_project_root, test_dir[1],
                                   args.verbose, args.output))
                  /\ harness_rc' = Append(harness_rc, rc)
                  /\ Exit(MainExitCode(ParitySucceeded(rc)))
    /\ UNCHANGED <<script, calls, args, dirs, test_dir, checked, builds,
                   build_rc, files, corpus, results, findings>>

----------------------------------------------------------------------------
(* tools/generate_primitive_test_binaries.py: main() *)

\* write_binary(filename, u8, ..., f64): pack the ten values, write the file
write_binary(fs, filename, values) ==
    WriteFile(fs, filename, StructPack(AllPrimitivesFmt, values))

\* main(): the next write_binary call
primitives_main_call ==
    /\ script = "generate_primitive_test_binaries"
    /\ pc = "main"
    /\ calls < Len(PrimitiveCalls)
    /\ LET call == PrimitiveCalls[calls + 1]
       IN  /\ StructPackOk(AllPrimitivesFmt, call.values)
           /\ files' = write_binary(files, call.filename, call.values)
    /\ calls' = calls + 1
    /\ UNCHANGED <<script, pc, args, dirs, test_dir, checked, cmds, builds,
                   build_rc, harness_rc, exit_code, corpus, results, findings>>

\* main() returns after the last call
primitives_main_return ==
    /\ script = "generate_primitive_test_binaries"
    /\ pc = "main"
    /\ calls = Len(PrimitiveCalls)
    /\ Exit(0)
    /\ UNCHANGED <<script, calls, args, dirs, test_dir, checked, cmds, builds,
                   build_rc, harness_rc, files, corpus, results, findings>>

----------------------------------------------------------------------------
(* tests/compliance_tests/generate_test_data.py: main() *)

\* write_binary(filename, data) of generate_test_data.py
write_binary_data(fs, filename, data) == WriteFile(fs, filename, data)

\* main(): the next generate_* call
test_data_main_call ==
    /\ script = "generate_test_data"
    /\ pc = "main"
    /\ calls < Len(TestDataCalls)
    /\ LET gen == TestDataCalls[calls + 1]
       IN  files' = write_binary_data(files, gen.filename, gen.data)
    /\ calls' = calls + 1
    /\ UNCHANGED <<script, pc, args, dirs, test_dir, checked, cmds, builds,
                   build_rc, harness_rc, exit_code, corpus, results, findings>>

\* main() returns after the last call
test_data_main_return ==
    /\ script = "generate_test_data"
    /\ pc = "main"
    /\ calls = Len(TestDataCalls)
    /\ Exit(0)
    /\ UNCHANGED <<script, calls, args, dirs, test_dir, checked, cmds, builds,
                   build_rc, harness_rc, files, corpus, results, findings>>

----------------------------------------------------------------------------
(* the parity harness: run(corpus, adapter_a, adapter_b, mode) *)

\* the harness is fatal on a corpus it cannot load; a loaded corpus is
\* evaluated vector by vector
harness_load ==
    /\ script = "compliance_harness"
    /\ pc = "load"
    /\ \/ Exit(2)
       \/ pc' = "vectors" /\ UNCHANGED exit_code
    /\ UNCHANGED <<script, calls, args, dirs, test_dir, checked, cmds, builds,
                   build_rc, harness_rc, files, corpus, results, findings>>

\* the findings after vector i has been evaluated: a failing vector adds one
\* entry, and the run goes on
RecordVector(found, i, fails) == IF fails THEN Append(found, i) ELSE found

\* mutation: the run stops at the first finding
HarnessDone_FirstFinding(evaluated, vectors, found) ==
    Len(evaluated) = Len(vectors) \/ found # <<>>

\* the run ends when every vector of the corpus has been evaluated, never
\* before
HarnessDone(evaluated, vectors, found) == Len(evaluated) = Len(vectors)

\* evaluate the next vector of the corpus
harness_vector ==
    /\ script = "compliance_harness"
    /\ pc = "vectors"
    /\ ~HarnessDone(results, corpus, findings)
    /\ LET i == Len(results) + 1
       IN  /\ results' = Append(results, i)
           /\ findings' = RecordVector(findings, i, corpus[i])
    /\ UNCHANGED <<script, pc, calls, args, dirs, test_dir, checked, cmds,
                   builds, build_rc, harness_rc, exit_code, files, corpus>>

\* success = (no findings); zero findings is the success exit
ReportExit(found) == IF found = <<>> THEN 0 ELSE 1

\* emit the report and exit
harness_report ==
    /\ script = "compliance_harness"
    /\ pc = "vectors"
    /\ HarnessDone(results, corpus, findings)
    /\ Exit(ReportExit(findings))
    /\ UNCHANGED <<script, calls, args, dirs, test_dir, checked, cmds, builds,
                   build_rc, harness_rc, files, corpus, results, findings>>

----------------------------------------------------------------------------

Next ==
    \/ build_compliance_harness
    \/ build_only_exit
    \/ determine_test_dir
    \/ run_parity_checks
    \/ primitives_main_call
    \/ primitives_main_return
    \/ test_data_main_call
    \/ test_data_main_return
    \/ harness_load
    \/ harness_vector
    \/ harness_report

Spec == Init /\ [][Next]_vars

----------------------------------------------------------------------------
(* properties of the driver *)

IsDriver == script = "run_ir_parity_checks"

HarnessBinaryStr ==
    <<"/", "thru", "/", "abi", "/", "abi_gen", "/", "tests", "/",
      "compliance_harness_rust", "/", "target", "/", "release", "/",
      "compliance_harness">>

\* the run got as far as starting the harness: the build returned 0,
\* --build-only was not given, the test directory and the binary exist
ReachedHarness ==
    /\ IsDriver
    /\ pc = "exited"
    /\ build_rc = <<0>>
    /\ ~args.build_only
    /\ test_dir # <<>>
    /\ test_dir[1] \in dirs
    /\ PathOf(HarnessBinaryStr) \in dirs

\* C1: a run that reaches the harness invocation exits with 0 exactly when
\* the harness returned 0, and with 1 in every other outcome of the harness
\* (a non-zero or negative return code, or a harness that could not be
\* started).
C1_ExitCodeFollowsHarness ==
    ReachedHarness =>
        /\ exit_code \in {<<0>>, <<1>>}
        /\ exit_code = <<0>> <=> (harness_rc # <<>> /\ harness_rc[1] = 0)

\* C1 witness: the harness returned 2 and the driver exited with 1
C1_Witness == ReachedHarness /\ harness_rc = <<2>> /\ exit_code = <<1>>

HasArg(cmd, a) == \E k \in 1..Len(cmd) : cmd[k] = a
HasPair(cmd, a, b) == \E k \in 1..(Len(cmd) - 1) : cmd[k] = a /\ cmd[k + 1] = b

\* C2 as stated: every harness command line is binary, test directory,
\* --parity; it contains --verbose iff verbose is true, and --output <file>
\* iff an output file was given; nothing else is added.
C2_AsStated ==
    IsDriver =>
        \A n \in 1..Len(cmds) :
            LET cmd == cmds[n]
            IN  /\ Len(cmd) >= 3
                /\ cmd[1] = HarnessBinaryStr
                /\ cmd[2] = PathStr(test_dir[1])
                /\ cmd[3] = <<"--parity">>
                /\ HasArg(cmd, <<"--verbose">>) <=> args.verbose
                /\ HasPair(cmd, <<"--output">>, args.output.val) <=> args.output.some
                /\ Len(cmd) = 3 + (IF args.verbose THEN 1 ELSE 0)
                                + (IF args.output.some THEN 2 ELSE 0)

\* C2 amended: every harness command line is binary, test directory,
\* --parity; its fourth argument is --verbose iff verbose is true; it ends
\* with --output <file> iff a non-empty output file name was given (None and
\* the empty string add nothing); nothing else is added.
C2_CommandLine ==
    IsDriver =>
        \A n \in 1..Len(cmds) :
            LET cmd == cmds[n]
                m   == Len(cmd)
            IN  /\ m >= 3
                /\ cmd[1] = HarnessBinaryStr
                /\ cmd[2] = PathStr(test_dir[1])
                /\ cmd[3] = <<"--parity">>
                /\ (m >= 4 /\ cmd[4] = <<"--verbose">>) <=> args.verbose
                /\ (m >= 5 /\ cmd[m - 1] = <<"--output">> /\ cmd[m] = args.output.val)
                       <=> (args.output.some /\ args.output.val # <<>>)
                /\ m = 3 + (IF args.verbose THEN 1 ELSE 0)
                         + (IF args.output.some /\ args.output.val # <<>> THEN 2 ELSE 0)

\* C2 witness: a command line with --verbose and --output report.json
C2_Witness ==
    /\ IsDriver
    /\ Len(cmds) = 1
    /\ args.verbose
    /\ args.output = Some(<<"report.json">>)
    /\ Len(cmds[1]) = 6

\* C9: the harness is started at most once, and only after the build
\* returned 0, without --build-only, with the test directory and the binary
\* existing; a failed build, a missing test directory and a missing binary
\* each end the run with 1 and no harness; --build-only ends it with 0 after a
\* successful build, with no test of the test directory and no harness.
C9_HarnessOnlyAfterChecks ==
    IsDriver =>
        /\ Len(cmds) <= 1
        /\ Len(builds) <= 1
        /\ cmds # <<>> =>
              /\ build_rc = <<0>>
              /\ ~args.build_only
              /\ test_dir # <<>>
              /\ test_dir[1] \in checked
              /\ test_dir[1] \in dirs
              /\ PathOf(HarnessBinaryStr) \in dirs
        /\ (pc = "exited" /\ build_rc # <<0>>) =>
              exit_code = <<1>> /\ cmds = <<>> /\ checked = {}
        /\ (pc = "exited" /\ test_dir # <<>> /\ test_dir[1] \notin dirs) =>
              exit_code = <<1>> /\ cmds = <<>>
        /\ (pc = "exited" /\ build_rc = <<0>> /\ ~args.build_only
                /\ PathOf(HarnessBinaryStr) \notin dirs) =>
              exit_code = <<1>> /\ cmds = <<>>
        /\ (build_rc = <<0>> /\ args.build_only) =>
              /\ checked = {} /\ test_dir = <<>> /\ cmds = <<>>
              /\ pc \in {"built", "exited"}
              /\ pc = "exited" => exit_code = <<0>>

\* C9 witness: the harness has been started once, after every check
C9_Witness ==
    /\ IsDriver
    /\ pc = "exited"
    /\ Len(cmds) = 1
    /\ build_rc = <<0>>
    /\ checked # {}

ProjectRootParts == <<"thru", "abi", "abi_gen">>

\* the default directory: tests/compliance_tests/test_cases when it exists,
\* otherwise tests
DefaultTestDir ==
    IF [abs |-> TRUE,
        parts |-> ProjectRootParts \o <<"tests", "compliance_tests", "test_cases">>]
           \in dirs
    THEN [abs |-> TRUE,
          parts |-> ProjectRootParts \o <<"tests", "compliance_tests", "test_cases">>]
    ELSE [abs |-> TRUE, parts |-> ProjectRootParts \o <<"tests">>]

\* the path an argument string names: its components, absolute iff it
\* starts with the separator
NamedPath(str) ==
    [abs   |-> str # <<>> /\ str[1] = "/",
     parts |-> SelectSeq(str, LAMBDA t : t # "/" /\ t # ".")]

\* the directory handed to the harness is the one main() tested
PassedDirWasChecked ==
    /\ checked = {test_dir[1]}
    /\ \A n \in 1..Len(cmds) : cmds[n][2] = PathStr(test_dir[1])

\* C10 as stated: with --test-dir an absolute path is used unchanged and a
\* relative one is joined to the project root; without --test-dir the
\* default directory is used; the directory passed to the harness is the
\* one main() tested.
C10_AsStated ==
    (IsDriver /\ test_dir # <<>>) =>
        /\ args.test_dir.some =>
              LET given == NamedPath(args.test_dir.val)
              IN  test_dir[1] =
                     IF given.abs THEN given
                     ELSE [abs |-> TRUE, parts |-> ProjectRootParts \o given.parts]
        /\ ~args.test_dir.some => test_dir[1] = DefaultTestDir
        /\ PassedDirWasChecked

\* C10 amended: with a non-empty --test-dir an absolute path is used
\* unchanged and a relative one is joined to the project root; without
\* --test-dir, or with an empty one, the default directory is used; the
\* directory passed to the harness is the one main() tested.
C10_TestDirResolution ==
    (IsDriver /\ test_dir # <<>>) =>
        /\ (args.test_dir.some /\ args.test_dir.val # <<>>) =>
              LET given == NamedPath(args.test_dir.val)
              IN  test_dir[1] =
                     IF given.abs THEN given
                     ELSE [abs |-> TRUE, parts |-> ProjectRootParts \o given.parts]
        /\ (~args.test_dir.some \/ args.test_dir.val = <<>>) =>
              test_dir[1] = DefaultTestDir
        /\ test_dir[1].abs
        /\ PassedDirWasChecked

\* C10 witness: a relative --test-dir reached the harness, joined to the root
C10_Witness ==
    /\ IsDriver
    /\ args.test_dir = Some(<<"cases">>)
    /\ Len(cmds) = 1
    /\ cmds[1][2] = <<"/", "thru", "/", "abi", "/", "abi_gen", "/", "cases">>

----------------------------------------------------------------------------
(* properties of the fixtures *)

IsPrimitives == script = "generate_primitive_test_binaries"
IsTestData == script = "generate_test_data"

\* the AllPrimitives layout: widths of u8,u16,u32,u64,i8,i16,i32,i64,f32,f64
\* and the offsets of the fields
FieldSizes == <<1, 2, 4, 8, 1, 2, 4, 8, 4, 8>>
FieldOffsets == <<0, 1, 3, 7, 15, 16, 18, 22, 30, 34>>
FieldCodes == <<"B", "H", "I", "Q", "b", "h", "i", "q", "f", "d">>

RECURSIVE SumFirst(_, _)
SumFirst(sizes, n) == IF n = 0 THEN 0 ELSE SumFirst(sizes, n - 1) + sizes[n]

\* the encoding of one field value on its own
FieldBytes(j, v) == PackOne("<", FieldCodes[j], v)

\* C3: every AllPrimitives file written holds the ten fields at offsets
\* 0,1,3,7,15,16,18,22,30,34, each the sum of the sizes before it, in 42
\* bytes, the sum of the sizes; structs/simple.bin (u64,u8,u16) is 11 bytes
\* with the fields at 0, 8 and 9.
C3_DensePacking ==
    /\ IsPrimitives =>
          \A k \in 1..calls :
              LET call == PrimitiveCalls[k]
                  file == files[call.filename]
              IN  /\ Len(file) = 42
                  /\ Len(file) = SumFirst(FieldSizes, 10)
                  /\ \A j \in 1..10 :
                        /\ FieldOffsets[j] = SumFirst(FieldSizes, j - 1)
                        /\ SubSeq(file, FieldOffsets[j] + 1,
                                  FieldOffsets[j] + FieldSizes[j])
                              = FieldBytes(j, call.values[j])
    /\ (IsTestData /\ calls >= 3) =>
          LET file == files["structs/simple.bin"]
          IN  /\ Len(file) = 11
              /\ SubSeq(file, 1, 8) = <<57, 48, 0, 0, 0, 0, 0, 0>>
              /\ SubSeq(file, 9, 9) = <<66>>
              /\ SubSeq(file, 10, 11) = <<15, 39>>

\* C3 witness: all seven AllPrimitives files are written, 42 bytes each
C3_Witness ==
    /\ IsPrimitives
    /\ calls = 7
    /\ \A n \in PrimitiveFiles : Len(files[n]) = 42
    /\ files["common_values.bin"][16] = 214

\* (v div 256^i) mod 256 for a Python int v >= 0
DigitAt(v, i) ==
    IF (i \div 2) + 1 > Len(v.mag) THEN 0
    ELSE (v.mag[(i \div 2) + 1] \div (IF i % 2 = 0 THEN 1 ELSE 256)) % 256

\* C5: integers are written little-endian: u32_0x12345678.bin holds
\* 0x78,0x56,0x34,0x12 at offsets 3..6, and in every file written byte i of
\* every unsigned field of value v is (v div 256^i) mod 256.
C5_LittleEndian ==
    IsPrimitives =>
        /\ calls >= 5 =>
              SubSeq(files["u32_0x12345678.bin"], 4, 7) = <<\h78, \h56, \h34, \h12>>
        /\ \A k \in 1..calls :
              LET call == PrimitiveCalls[k]
                  file == files[call.filename]
              IN  \A j \in 1..4 :
                      \A i \in 0..(FieldSizes[j] - 1) :
                          file[FieldOffsets[j] + i + 1] = DigitAt(call.values[j], i)

\* C5 witness: the little-endian fixture and the 64-bit fixture are written
C5_Witness ==
    /\ IsPrimitives
    /\ calls >= 6
    /\ files["u32_0x12345678.bin"][4] = \h78
    /\ files["u64_bigint.bin"][15] = \h12

\* C4: an enum is its one-byte tag followed by the selected variant's
\* payload only: none.bin is [0x00], value.bin is [0x01,0x2A,0,0,0], pair.bin
\* is [0x02,0x64,0x00,0xC8,0x00].
C4_EnumFixtures ==
    IsTestData =>
        /\ calls >= 5 => files["enums/none.bin"] = <<0>>
        /\ calls >= 6 => files["enums/value.bin"] = <<1, \h2A, 0, 0, 0>>
        /\ calls >= 7 => files["enums/pair.bin"] = <<2, \h64, 0, \hC8, 0>>

\* C4 witness: the three enum fixtures are written, 1, 5 and 5 bytes long
C4_Witness ==
    /\ IsTestData
    /\ calls >= 7
    /\ Len(files["enums/none.bin"]) = 1
    /\ Len(files["enums/value.bin"]) = 5
    /\ Len(files["enums/pair.bin"]) = 5

\* C6: a union is the bytes of its active variant and nothing else:
\* int_value.bin is the two's-complement little-endian i32 -42,
\* [0xD6,0xFF,0xFF,0xFF]; float_value.bin the four bytes of the f32;
\* bytes.bin the four bytes given; no discriminant byte before or after.
C6_UnionFixtures ==
    IsTestData =>
        /\ calls >= 8 => files["unions/int_value.bin"] = <<\hD6, \hFF, \hFF, \hFF>>
        /\ calls >= 9 => files["unions/float_value.bin"] = <<\hD0, \h0F, \h49, \h40>>
        /\ calls >= 10 => files["unions/bytes.bin"] = <<\hDE, \hAD, \hBE, \hEF>>

\* C6 witness: the three union fixtures are written, four bytes each
C6_Witness ==
    /\ IsTestData
    /\ calls = 10
    /\ \A n \in {"unions/int_value.bin", "unions/float_value.bin", "unions/bytes.bin"} :
          Len(files[n]) = 4

\* the array fixture: u8[4], u16[3], u32[2], i32[5]
ArrayCounts == <<4, 3, 2, 5>>
ArrayElemSizes == <<1, 2, 4, 4>>
ArraysSize ==
    ArrayCounts[1] * ArrayElemSizes[1] + ArrayCounts[2] * ArrayElemSizes[2]
        + ArrayCounts[3] * ArrayElemSizes[3] + ArrayCounts[4] * ArrayElemSizes[4]

\* C7: a fixed array is its count element encodings in index order with no
\* length prefix: both array fixtures are 4 + 6 + 8 + 20 = 38 bytes whatever
\* the element values, and simple.bin is the elements one after another.
C7_ArrayFixtures ==
    IsTestData =>
        /\ ArraysSize = 38
        /\ calls >= 1 =>
              LET file == files["arrays/simple.bin"]
              IN  /\ Len(file) = ArraysSize
                  /\ SubSeq(file, 1, 4) = <<1, 2, 3, 4>>
                  /\ SubSeq(file, 5, 10) = <<10, 0, 20, 0, 30, 0>>
                  /\ SubSeq(file, 11, 18) = <<100, 0, 0, 0, 200, 0, 0, 0>>
                  /\ SubSeq(file, 19, 38) =
                        <<255, 255, 255, 255, 0, 0, 0, 0, 1, 0, 0, 0,
                          156, 255, 255, 255, 100, 0, 0, 0>>
        /\ calls >= 2 =>
              /\ Len(files["arrays/all_zeros.bin"]) = ArraysSize
              /\ \A k \in 1..ArraysSize : files["arrays/all_zeros.bin"][k] = 0

\* C7 witness: both array fixtures are written and differ in content only
C7_Witness ==
    /\ IsTestData
    /\ calls >= 2
    /\ Len(files["arrays/simple.bin"]) = Len(files["arrays/all_zeros.bin"])
    /\ files["arrays/simple.bin"] # files["arrays/all_zeros.bin"]

----------------------------------------------------------------------------
(* properties of the harness *)

IsHarness == script = "compliance_harness"

\* C8: the harness never aborts early: whatever vectors fail, every vector
\* of the corpus is evaluated, results and findings are in corpus order, the
\* findings are exactly the failing vectors, and the run succeeds exactly
\* when there are no findings.
C8_NoEarlyAbort ==
    IsHarness =>
        /\ results = [i \in 1..Len(results) |-> i]
        /\ findings = SelectSeq(results, LAMBDA i : corpus[i])
        /\ (pc = "exited" /\ exit_code \in {<<0>>, <<1>>}) =>
              /\ Len(results) = Len(corpus)
              /\ exit_code = <<0>> <=> findings = <<>>

\* C8 witness: five vectors, the third fails, all five are evaluated
C8_Witness ==
    /\ IsHarness
    /\ pc = "exited"
    /\ corpus = <<FALSE, FALSE, TRUE, FALSE, FALSE>>
    /\ results = <<1, 2, 3, 4, 5>>
    /\ findings = <<3>>
    /\ exit_code = <<1>>
====
